---- MODULE Spec2Model ----
(***************************************************************************)
(* Model of the calendar slot finder of noah-read:                         *)
(*   src/services/calendar_service.py                                      *)
(*     CalendarService.find_earliest_available_slot                        *)
(*     CalendarService.schedule_reading_session                            *)
(*                                                                         *)
(* Time.  An aware datetime is a record [t, off]: t is the instant in      *)
(* seconds, counted so that the UTC+9 wall clock reads t (day = t \div     *)
(* 86400), and off is the datetime's UTC offset minus nine hours, in       *)
(* seconds (0 for +09:00, -9h for +00:00).  The fields Python reads        *)
(* (.hour, .minute, .second) and writes (.replace) are those of the        *)
(* datetime's own wall clock t + off; comparisons and differences are by   *)
(* instant, as Python compares aware datetimes.  Microseconds are not      *)
(* modelled: the code treats them exactly as it treats seconds.            *)
(*                                                                         *)
(* An ISO-8601 string is a record [date, hour, minute, second, tz] with    *)
(* tz the offset suffix ("Z", "+00:00", "+09:00").                         *)
(***************************************************************************)
EXTENDS Integers, Sequences, FiniteSets, TLC

VARIABLES
    enabled,        \* CalendarService.enabled
    service,        \* CalendarService.service is not None
    now,            \* datetime.now(UTC+9) read by the search
    duration,       \* the duration argument, minutes
    pc,             \* position of the invocation
    search_start,   \* local of find_earliest_available_slot
    search_end,     \* local of find_earliest_available_slot
    busy_periods,   \* free_busy_query["calendars"][id]["busy"]
    current_time,   \* the loop's candidate start
    branch,         \* the branch the last step of the code took
    raised,         \* exception leaving find_earliest_available_slot
    start_time,     \* value returned by find_earliest_available_slot
    event,          \* body handed to events().insert
    ret,            \* dictionary returned by schedule_reading_session
    queries,        \* freebusy().query(...).execute() calls made
    inserts,        \* events().insert(...).execute() calls made
    other,          \* the locals of a second find_earliest_available_slot
                    \* call on the same CalendarService
    calendar,       \* the events of the Google calendar, in creation order
    agent           \* the ReActAgent: chat_history and the position and
                    \* locals of its run call

vars == <<enabled, service, now, duration, pc, search_start, search_end,
          busy_periods, current_time, branch, raised, start_time, event,
          ret, queries, inserts, other, calendar, agent>>

----------------------------------------------------------------------------
(* Units and program constants *)

HourSecs == 60 * 60
MinuteSecs == HourSecs \div 60
DaySecs == 24 * HourSecs

business_hours_start == 8

\* business_hours_end on the 12-hour clock ('9 PM')
business_hours_end_12h == 21 - 12

business_hours_end == 21
Quantum == 15
HorizonDays == 30

(* Bounds of the model: the longest busy list the feed returns, to one     *)
(* invocation and to each of two calls.                                    *)
MaxBusy == 2
MaxPairBusy == 2

(* Bound of the model: the steps one search is followed for. *)
MaxAloneSteps == 12

(* Bound of the model: the loop iterations of one search that are counted. *)
MaxIterations == 100

----------------------------------------------------------------------------
(* datetime *)

JST == 0
UTC == 0 - 9 * HourSecs

Local(dt) == dt.t + dt.off
DateOf(dt) == Local(dt) \div DaySecs
HourOf(dt) == (Local(dt) % DaySecs) \div HourSecs
MinuteOf(dt) == (Local(dt) % HourSecs) \div MinuteSecs
SecondOf(dt) == Local(dt) % MinuteSecs

\* dt.replace(hour=h, minute=m, second=s), the date and the offset kept
Replace(dt, h, m, s) ==
    [t |-> DateOf(dt) * DaySecs + h * HourSecs + m * MinuteSecs + s - dt.off,
     off |-> dt.off]

\* dt + datetime.timedelta(seconds=secs)
Plus(dt, secs) == [t |-> dt.t + secs, off |-> dt.off]

Timedelta(days, minutes) == days * DaySecs + minutes * MinuteSecs

NoTime == [t |-> 0 - 1, off |-> JST]

\* str.replace('Z', '+00:00') on a timestamp of the feed
ReplaceZ(s) == IF s.tz = "Z" THEN [s EXCEPT !.tz = "+00:00"] ELSE s

\* datetime.datetime.fromisoformat
FromIsoFormat(s) ==
    LET off == IF s.tz = "+09:00" THEN JST ELSE UTC
    IN  [t |-> s.date * DaySecs + s.hour * HourSecs + s.minute * MinuteSecs
               + s.second - off,
         off |-> off]

\* datetime.isoformat
IsoFormat(dt) ==
    [date |-> DateOf(dt), hour |-> HourOf(dt), minute |-> MinuteOf(dt),
     second |-> SecondOf(dt),
     tz |-> IF dt.off = JST THEN "+09:00" ELSE "+00:00"]

\* datetime.strftime('%Y-%m-%d %H:%M')
StrfTime(dt) == [date |-> DateOf(dt), hour |-> HourOf(dt), minute |-> MinuteOf(dt)]

----------------------------------------------------------------------------
(* The inputs of one invocation *)

Stamp(date, hour, minute, second, tz) ==
    [date |-> date, hour |-> hour, minute |-> minute, second |-> second, tz |-> tz]

Period(s, e) == [start |-> s, end |-> e]

\* Busy periods the free/busy feed may report (day 1 is the day of 'now').
BusyChoices ==
    { Period(Stamp(1, 9, 0, 0, "+09:00"), Stamp(1, 10, 0, 0, "+09:00")),
      Period(Stamp(1, 8, 0, 0, "+09:00"), Stamp(1, 20, 45, 0, "+09:00")),
      Period(Stamp(1, 10, 0, 0, "+09:00"), Stamp(1, 10, 15, 30, "+09:00")),
      Period(Stamp(1, 10, 0, 0, "+09:00"), Stamp(1, 10, 50, 0, "+09:00")),
      Period(Stamp(1, 0, 0, 0, "Z"), Stamp(1, 1, 0, 0, "Z")),
      Period(Stamp(1, 11, 0, 0, "Z"), Stamp(1, 13, 0, 0, "Z")),
      Period(Stamp(1, 20, 0, 0, "+09:00"), Stamp(2, 7, 10, 0, "+09:00")),
      Period(Stamp(1, 0, 0, 0, "+09:00"), Stamp(31, 8, 0, 0, "+09:00")) }

BusyLists == UNION { [1..n -> BusyChoices] : n \in 0..MaxBusy }

At(date, hour, minute, second) ==
    [t |-> date * DaySecs + hour * HourSecs + minute * MinuteSecs + second,
     off |-> JST]

\* Readings of the clock, all on day 1.
NowChoices ==
    { At(1, 7, 10, 0), At(1, 8, 0, 0), At(1, 10, 15, 30), At(1, 10, 20, 0),
      At(1, 10, 50, 10), At(1, 20, 10, 0), At(1, 20, 50, 10), At(1, 21, 0, 5),
      At(1, 22, 30, 0) }

Durations == {15, 30, 60, 240}

\* What str(e) gives for the exceptions the free/busy query can end with:
\* an error of the client library, or the KeyError of a response without
\* the expected keys.
FetchErrors == {"HttpError 503", "'calendars'"}

----------------------------------------------------------------------------
(* find_earliest_available_slot *)

round_up_to_15_minutes(dt) ==
    LET minute == MinuteOf(dt)
        next_quarter == ((minute \div Quantum) + 1) * Quantum
    IN  IF minute % Quantum = 0
        THEN Replace(dt, HourOf(dt), minute, 0)
        ELSE IF next_quarter >= 60
             THEN LET later == Plus(dt, HourSecs)
                  IN  Replace(later, HourOf(later), 0, 0)
             ELSE Replace(dt, HourOf(dt), next_quarter, 0)

\* round_up_to_15_minutes_inner leaving the seconds of an end whose minute
\* is on a quarter
round_up_to_15_minutes_inner_KeepsSeconds(dt) ==
    LET minute == MinuteOf(dt)
        next_quarter == ((minute \div Quantum) + 1) * Quantum
    IN  IF minute % Quantum = 0
        THEN dt
        ELSE IF next_quarter >= 60
             THEN LET later == Plus(dt, HourSecs)
                  IN  Replace(later, HourOf(later), 0, 0)
             ELSE Replace(dt, HourOf(dt), next_quarter, 0)

round_up_to_15_minutes_inner(dt) ==
    LET minute == MinuteOf(dt)
        next_quarter == ((minute \div Quantum) + 1) * Quantum
    IN  IF minute % Quantum = 0
        THEN Replace(dt, HourOf(dt), minute, 0)
        ELSE IF next_quarter >= 60
             THEN LET later == Plus(dt, HourSecs)
                  IN  Replace(later, HourOf(later), 0, 0)
             ELSE Replace(dt, HourOf(dt), next_quarter, 0)

\* tomorrow = dt + timedelta(days=1); tomorrow.replace(hour=8, minute=0)
NextDayOpen(dt) ==
    LET tomorrow == Plus(dt, Timedelta(1, 0))
    IN  Replace(tomorrow, business_hours_start, 0, SecondOf(tomorrow))

\* SearchStart with 'after 9 PM' tested by > instead of >=
SearchStart_StrictClose(n) ==
    IF HourOf(n) < business_hours_start
    THEN Replace(n, business_hours_start, 0, 0)
    ELSE IF HourOf(n) > business_hours_end
         THEN Replace(Plus(n, Timedelta(1, 0)), business_hours_start, 0, 0)
         ELSE round_up_to_15_minutes(n)

SearchStart(n) ==
    IF HourOf(n) < business_hours_start
    THEN Replace(n, business_hours_start, 0, 0)
    ELSE IF HourOf(n) >= business_hours_end
         THEN Replace(Plus(n, Timedelta(1, 0)), business_hours_start, 0, 0)
         ELSE round_up_to_15_minutes(n)

\* SearchEnd one day too far
SearchEnd_OneDayMore(ss) == Plus(ss, Timedelta(HorizonDays + 1, 0))

SearchEnd(ss) == Plus(ss, Timedelta(HorizonDays, 0))

SlotEnd(ct, d) == Plus(ct, Timedelta(0, d))

\* the test of line 171 on slot_end
EndsAfterClose(slot_end) ==
    \/ HourOf(slot_end) >= business_hours_end
    \/ (HourOf(slot_end) = business_hours_end /\ MinuteOf(slot_end) > 0)

PeriodStart(p) == FromIsoFormat(ReplaceZ(p.start))
PeriodEnd(p) == FromIsoFormat(ReplaceZ(p.end))

\* Overlaps with the second comparison made against the period's end
Overlaps_EndForStart(ct, slot_end, p) ==
    ct.t < PeriodEnd(p).t /\ slot_end.t > PeriodEnd(p).t

\* Overlaps on closed intervals: touching boundaries count as overlap
Overlaps_Closed(ct, slot_end, p) ==
    ct.t <= PeriodEnd(p).t /\ slot_end.t >= PeriodStart(p).t

\* the test of line 186
Overlaps(ct, slot_end, p) ==
    ct.t < PeriodEnd(p).t /\ slot_end.t > PeriodStart(p).t

\* the index of the period at which the for loop breaks, 0 when it runs out
FirstOverlap(ct, slot_end, periods) ==
    LET hits == { i \in 1..Len(periods) : Overlaps(ct, slot_end, periods[i]) }
    IN  IF hits = {} THEN 0
        ELSE CHOOSE i \in hits : \A j \in hits : i <= j

InLoop == pc = "loop" /\ current_time.t < search_end.t

OpenNow == /\ HourOf(current_time) >= business_hours_start
           /\ HourOf(current_time) < business_hours_end

Candidate == /\ InLoop
             /\ OpenNow
             /\ ~EndsAfterClose(SlotEnd(current_time, duration))

----------------------------------------------------------------------------
(* The outcomes *)

NoExc == [type |-> "", msg |-> <<>>]

NoSlotText == "No available slots found in the next 30 days"

\* lines 212-214: every exception of the try block leaves as this one
Wrapped(detail) ==
    [type |-> "Exception", msg |-> <<"Could not find an available slot: ", detail>>]

NoStamp == Stamp(0, 0, 0, 0, "")
NoEvent == [start |-> NoStamp, end |-> NoStamp]
NoRet == [success |-> FALSE, error |-> <<>>, event_id |-> "",
          scheduled_time |-> [date |-> 0, hour |-> 0, minute |-> 0],
          duration |-> 0]

\* lines 230-233
Unavailable ==
    [NoRet EXCEPT !.error =
        <<"Calendar service not available. Please check your Google Calendar configuration and credentials.">>]

\* lines 241-245: str(e) of the exception of the search
SearchFailed(exc) == [NoRet EXCEPT !.error = exc.msg]

\* InsertFailed that also reports the slot the search had found
InsertFailed_WithSlot(detail) ==
    [NoRet EXCEPT !.error = <<"Failed to schedule reading session: ", detail>>,
                  !.scheduled_time = StrfTime(start_time),
                  !.duration = duration]

\* lines 285-290
InsertFailed(detail) ==
    [NoRet EXCEPT !.error = <<"Failed to schedule reading session: ", detail>>]

\* EndTime with the default duration in place of the argument
EndTime_DefaultDuration(st, d) == Plus(st, Timedelta(0, 30))

\* lines 247-266
EndTime(st, d) == Plus(st, Timedelta(0, d))

BuildEvent(st, d) ==
    [start |-> IsoFormat(st), end |-> IsoFormat(EndTime(st, d))]

\* lines 277-283
Scheduled(st, d) ==
    [success |-> TRUE, error |-> <<>>, event_id |-> "evt",
     scheduled_time |-> StrfTime(st), duration |-> d]

----------------------------------------------------------------------------
(* A second call of find_earliest_available_slot on the same              *)
(* CalendarService.  Its locals (lines 113-205) are the fields of a        *)
(* record; feed is the busy list its free/busy query will answer with.     *)

StartFrame(n, d, feed) ==
    [now |-> n, duration |-> d, feed |-> feed, pc |-> "call",
     search_start |-> NoTime, search_end |-> NoTime, busy_periods |-> <<>>,
     current_time |-> NoTime, raised |-> NoExc, start_time |-> NoTime,
     queries |-> 0, iterations |-> 0]

\* no second call is in progress
IdleFrame == [StartFrame(NoTime, 0, <<>>) EXCEPT !.pc = "idle"]

\* OwnBusy reading an attribute of the service that every call assigns
OwnBusy_Shared(f) == busy_periods

\* line 152: busy_periods is a local of the call
OwnBusy(f) == f.busy_periods

\* OwnCandidate reading the candidate that a call inside its loop keeps on
\* the service
OwnCandidate_Shared(f) == IF pc = "loop" THEN current_time ELSE f.current_time

\* lines 154-158: current_time is a local of the call
OwnCandidate(f) == f.current_time

\* Fetched answering from a list an earlier call left on the service
Fetched_Cached(f) == IF busy_periods # <<>> THEN busy_periods ELSE f.feed

\* lines 142-152: the busy list is read from the response of this call's
\* own query
Fetched(f) == f.feed

\* the count of loop bodies run, which the model stops counting at
\* MaxIterations
Counted(f) ==
    [f EXCEPT !.iterations =
        IF f.iterations < MaxIterations THEN f.iterations + 1 ELSE f.iterations]

\* lines 157-210: one evaluation of the loop condition and of the body
LoopStep(f) ==
    LET ct == OwnCandidate(f)
        slot_end == SlotEnd(ct, f.duration)
        i == FirstOverlap(ct, slot_end, OwnBusy(f))
        g == Counted(f)
    IN  IF ~(ct.t < f.search_end.t)
        THEN [f EXCEPT !.raised = Wrapped(NoSlotText), !.pc = "done"]
        ELSE IF HourOf(ct) < business_hours_start
        THEN [g EXCEPT !.current_time =
                  Replace(ct, business_hours_start, 0, SecondOf(ct))]
        ELSE IF HourOf(ct) >= business_hours_end
        THEN [g EXCEPT !.current_time = NextDayOpen(ct)]
        ELSE IF EndsAfterClose(slot_end)
        THEN [g EXCEPT !.current_time = NextDayOpen(ct)]
        ELSE IF i # 0
        THEN [g EXCEPT !.current_time =
                  round_up_to_15_minutes_inner(PeriodEnd(OwnBusy(f)[i]))]
        ELSE [g EXCEPT !.start_time = ct, !.pc = "done"]

\* lines 113-210: the next step of the call
FrameStep(f) ==
    CASE f.pc = "call" ->
           [f EXCEPT !.search_start = SearchStart(f.now),
                     !.search_end = SearchEnd(SearchStart(f.now)),
                     !.pc = "fetch"]
      [] f.pc = "fetch" ->
           [f EXCEPT !.busy_periods = Fetched(f),
                     !.queries = f.queries + 1,
                     !.current_time = f.search_start,
                     !.pc = "loop"]
      [] f.pc = "loop" -> LoopStep(f)
      [] OTHER -> f

----------------------------------------------------------------------------
(* The calendar and the agent, as they stand while neither is used *)

\* lines 268-270: the event the calendar holds after events().insert, with
\* the invocation that created it
Created(body, by) == [start |-> body.start, end |-> body.end, by |-> by]

\* src/agent/react_agent.py lines 35-39: an action_input no decision gave
NoInput == [json |-> FALSE, book_title |-> "", query |-> ""]

\* src/agent/react_agent.py lines 46-64: the ReActAgent after construction.
\* pc is the position of run; rounds counts the iterations of its loop that
\* were entered; created counts the calendar events the tools created;
\* calls lists, since the last reset, the run calls that ended, with the
\* input, how the call ended and the text it returned.
IdleAgent ==
    [pc |-> "idle", max_iterations |-> 0, chat_history |-> <<>>,
     user_input |-> "", rounds |-> 0, decision |-> "",
     action_input |-> NoInput, observation |-> <<>>, returned |-> <<>>,
     why |-> "", runs |-> 0, created |-> 0, calls |-> <<>>]

----------------------------------------------------------------------------
(* The state after construction, and one invocation of                    *)
(* schedule_reading_session(book_title, duration)                          *)

Init ==
    /\ enabled \in BOOLEAN
    /\ service \in BOOLEAN
    /\ (enabled => service)
    /\ now \in NowChoices
    /\ duration \in Durations
    /\ pc = "call"
    /\ search_start = NoTime
    /\ search_end = NoTime
    /\ busy_periods = <<>>
    /\ current_time = NoTime
    /\ branch = "none"
    /\ raised = NoExc
    /\ start_time = NoTime
    /\ event = NoEvent
    /\ ret = NoRet
    /\ queries = 0
    /\ inserts = 0
    /\ other = IdleFrame
    /\ calendar = <<>>
    /\ agent = IdleAgent

\* lines 229-233: the service is not enabled or has no client
ScheduleUnavailable ==
    /\ pc = "call"
    /\ ~enabled \/ ~service
    /\ ret' = Unavailable
    /\ branch' = "unavailable"
    /\ pc' = "done"
    /\ UNCHANGED <<agent, calendar, other, enabled, service, now, duration, search_start, search_end,
                   busy_periods, current_time, raised, start_time, event,
                   queries, inserts>>

\* lines 113-140: the clock is read, search_start and search_end are set
ComputeSearchStart ==
    /\ pc = "call"
    /\ enabled /\ service
    /\ search_start' = SearchStart(now)
    /\ search_end' = SearchEnd(SearchStart(now))
    /\ branch' = "search_start"
    /\ pc' = "fetch"
    /\ UNCHANGED <<agent, calendar, other, enabled, service, now, duration, busy_periods, current_time,
                   raised, start_time, event, ret, queries, inserts>>

\* lines 142-155: the free/busy query answers with a busy list
FetchBusy ==
    /\ pc = "fetch"
    /\ \E periods \in BusyLists : busy_periods' = periods
    /\ queries' = queries + 1
    /\ current_time' = search_start
    /\ branch' = "fetched"
    /\ pc' = "loop"
    /\ UNCHANGED <<agent, calendar, other, enabled, service, now, duration, search_start, search_end,
                   raised, start_time, event, ret, inserts>>

\* lines 151-152, 212-214, 241-245: the query raises, or its response lacks
\* the keys read from it
FetchFail ==
    /\ pc = "fetch"
    /\ queries' = queries + 1
    /\ \E detail \in FetchErrors :
          /\ raised' = Wrapped(detail)
          /\ ret' = SearchFailed(Wrapped(detail))
    /\ branch' = "fetch_error"
    /\ pc' = "done"
    /\ UNCHANGED <<agent, calendar, other, enabled, service, now, duration, search_start, search_end,
                   busy_periods, current_time, start_time, event, inserts>>

\* lines 159-162
SkipBeforeOpen ==
    /\ InLoop
    /\ HourOf(current_time) < business_hours_start
    /\ current_time' = Replace(current_time, business_hours_start, 0,
                               SecondOf(current_time))
    /\ branch' = "before_open"
    /\ UNCHANGED <<agent, calendar, other, enabled, service, now, duration, pc, search_start,
                   search_end, busy_periods, raised, start_time, event, ret,
                   queries, inserts>>

\* lines 163-167
SkipAfterClose ==
    /\ InLoop
    /\ HourOf(current_time) >= business_hours_end
    /\ current_time' = NextDayOpen(current_time)
    /\ branch' = "after_close"
    /\ UNCHANGED <<agent, calendar, other, enabled, service, now, duration, pc, search_start,
                   search_end, busy_periods, raised, start_time, event, ret,
                   queries, inserts>>

\* lines 169-175
SkipEndAfterClose ==
    /\ InLoop
    /\ OpenNow
    /\ EndsAfterClose(SlotEnd(current_time, duration))
    /\ current_time' = NextDayOpen(current_time)
    /\ branch' = "end_after_close"
    /\ UNCHANGED <<agent, calendar, other, enabled, service, now, duration, pc, search_start,
                   search_end, busy_periods, raised, start_time, event, ret,
                   queries, inserts>>

\* lines 177-198, 204-205: the first overlapping period moves the candidate
JumpPastBusy ==
    /\ Candidate
    /\ LET i == FirstOverlap(current_time, SlotEnd(current_time, duration),
                             busy_periods)
       IN  /\ i # 0
           /\ current_time' = round_up_to_15_minutes_inner(PeriodEnd(busy_periods[i]))
    /\ branch' = "busy"
    /\ UNCHANGED <<agent, calendar, other, enabled, service, now, duration, pc, search_start,
                   search_end, busy_periods, raised, start_time, event, ret,
                   queries, inserts>>

\* lines 200-201, 238-266: the candidate is free; the search returns it and
\* the event is built
ReturnSlot ==
    /\ Candidate
    /\ FirstOverlap(current_time, SlotEnd(current_time, duration),
                    busy_periods) = 0
    /\ start_time' = current_time
    /\ event' = BuildEvent(current_time, duration)
    /\ branch' = "free"
    /\ pc' = "insert"
    /\ UNCHANGED <<agent, calendar, other, enabled, service, now, duration, search_start, search_end,
                   busy_periods, current_time, raised, ret, queries, inserts>>

\* Exhausted with the error swallowed: the invocation goes on to create the
\* event
Exhausted_FallsThrough ==
    /\ pc = "loop"
    /\ ~(current_time.t < search_end.t)
    /\ raised' = Wrapped(NoSlotText)
    /\ branch' = "exhausted"
    /\ pc' = "insert"
    /\ UNCHANGED <<agent, calendar, other, enabled, service, now, duration, search_start,
                   search_end, busy_periods, current_time, start_time, event,
                   ret, queries, inserts>>

\* lines 157, 210-214, 241-245: the loop ends without a slot
Exhausted ==
    /\ pc = "loop"
    /\ ~(current_time.t < search_end.t)
    /\ raised' = Wrapped(NoSlotText)
    /\ ret' = SearchFailed(Wrapped(NoSlotText))
    /\ branch' = "exhausted"
    /\ pc' = "done"
    /\ UNCHANGED <<agent, calendar, other, enabled, service, now, duration, search_start, search_end,
                   busy_periods, current_time, start_time, event, queries,
                   inserts>>

\* lines 268-283: the event is created
InsertEvent ==
    /\ pc = "insert"
    /\ inserts' = inserts + 1
    /\ calendar' = Append(calendar, Created(event, "first"))
    /\ ret' = Scheduled(start_time, duration)
    /\ branch' = "inserted"
    /\ pc' = "done"
    /\ UNCHANGED <<agent, other, enabled, service, now, duration, search_start, search_end,
                   busy_periods, current_time, raised, start_time, event,
                   queries>>

\* InsertFail that tries the call again instead of returning
InsertFail_Retries ==
    /\ pc = "insert"
    /\ inserts' = inserts + 1
    /\ branch' = "insert_error"
    /\ UNCHANGED <<agent, calendar, other, enabled, service, now, duration, pc, search_start,
                   search_end, busy_periods, current_time, raised, start_time,
                   event, ret, queries>>

\* lines 268-275, 285-290: events().insert raises
InsertFail ==
    /\ pc = "insert"
    /\ inserts' = inserts + 1
    /\ ret' = InsertFailed("HttpError 403")
    /\ branch' = "insert_error"
    /\ pc' = "done"
    /\ UNCHANGED <<agent, calendar, other, enabled, service, now, duration, search_start, search_end,
                   busy_periods, current_time, raised, start_time, event,
                   queries>>

Next ==
    \/ ScheduleUnavailable
    \/ ComputeSearchStart
    \/ FetchBusy
    \/ FetchFail
    \/ SkipBeforeOpen
    \/ SkipAfterClose
    \/ SkipEndAfterClose
    \/ JumpPastBusy
    \/ ReturnSlot
    \/ Exhausted
    \/ InsertEvent
    \/ InsertFail

Spec == Init /\ [][Next]_vars

----------------------------------------------------------------------------
(* Two calls on one CalendarService: the invocation above and a second    *)
(* search whose steps interleave with it in every order.                   *)

\* Busy periods of the two feeds: 09:00-10:00 of day 1 written with the
\* +09:00 suffix and with the Z suffix, and a period covering the horizon.
PairChoices ==
    { Period(Stamp(1, 9, 0, 0, "+09:00"), Stamp(1, 10, 0, 0, "+09:00")),
      Period(Stamp(1, 0, 0, 0, "Z"), Stamp(1, 1, 0, 0, "Z")),
      Period(Stamp(1, 0, 0, 0, "+09:00"), Stamp(31, 8, 0, 0, "+09:00")) }

PairLists == UNION { [1..n -> PairChoices] : n \in 0..MaxPairBusy }

NowPair == { At(1, 8, 0, 0), At(1, 20, 10, 0), At(1, 20, 50, 10) }

\* Readings of the clock by the second call.
OtherNow == { At(1, 8, 0, 0), At(1, 20, 10, 0) }

PairDurations == {60, 240}

InitPair ==
    /\ enabled = TRUE
    /\ service = TRUE
    /\ now \in NowPair
    /\ duration \in PairDurations
    /\ pc = "call"
    /\ search_start = NoTime
    /\ search_end = NoTime
    /\ busy_periods = <<>>
    /\ current_time = NoTime
    /\ branch = "none"
    /\ raised = NoExc
    /\ start_time = NoTime
    /\ event = NoEvent
    /\ ret = NoRet
    /\ queries = 0
    /\ inserts = 0
    /\ other \in { StartFrame(n, d, feed) :
                     n \in OtherNow, d \in PairDurations, feed \in PairLists }
    /\ calendar = <<>>
    /\ agent = IdleAgent

\* lines 142-155: the free/busy query of the first call answers
FetchBusyPair ==
    /\ pc = "fetch"
    /\ \E periods \in PairLists : busy_periods' = periods
    /\ queries' = queries + 1
    /\ current_time' = search_start
    /\ branch' = "fetched"
    /\ pc' = "loop"
    /\ UNCHANGED <<agent, calendar, other, enabled, service, now, duration, search_start,
                   search_end, raised, start_time, event, ret, inserts>>

\* lines 113-210: the second call takes its next step
OtherStep ==
    /\ other.pc \in {"call", "fetch", "loop"}
    /\ other' = FrameStep(other)
    /\ UNCHANGED <<agent, calendar, enabled, service, now, duration, pc, search_start,
                   search_end, busy_periods, current_time, branch, raised,
                   start_time, event, ret, queries, inserts>>

NextPair ==
    \/ ComputeSearchStart
    \/ FetchBusyPair
    \/ FetchFail
    \/ SkipBeforeOpen
    \/ SkipAfterClose
    \/ SkipEndAfterClose
    \/ JumpPastBusy
    \/ ReturnSlot
    \/ Exhausted
    \/ InsertEvent
    \/ InsertFail
    \/ OtherStep

SpecPair == InitPair /\ [][NextPair]_vars

----------------------------------------------------------------------------
(* One call of find_earliest_available_slot by itself, its loop iterations *)
(* counted; no invocation of schedule_reading_session is in progress.      *)

InitWalk ==
    /\ enabled = TRUE
    /\ service = TRUE
    /\ now = NoTime
    /\ duration = 0
    /\ pc = "done"
    /\ search_start = NoTime
    /\ search_end = NoTime
    /\ busy_periods = <<>>
    /\ current_time = NoTime
    /\ branch = "none"
    /\ raised = NoExc
    /\ start_time = NoTime
    /\ event = NoEvent
    /\ ret = NoRet
    /\ queries = 0
    /\ inserts = 0
    /\ other \in { StartFrame(n, d, feed) :
                     n \in NowChoices, d \in Durations, feed \in BusyLists }
    /\ calendar = <<>>
    /\ agent = IdleAgent

NextWalk == OtherStep

SpecWalk == InitWalk /\ [][NextWalk]_vars

----------------------------------------------------------------------------
(* Two invocations of schedule_reading_session against one calendar: the   *)
(* free/busy query of each answers with the events the calendar holds when *)
(* the query is made, and each created event is added to the calendar.     *)

\* lines 142-152: the busy periods the query answers with, one per event
BusyOf(cal) == [i \in 1..Len(cal) |-> Period(cal[i].start, cal[i].end)]

\* Calendars found at the start: empty, an evening event running to 07:10
\* of the next day, an event covering the horizon.
BookCalendars ==
    { <<>>,
      <<Created(Period(Stamp(1, 20, 0, 0, "+09:00"),
                       Stamp(2, 7, 10, 0, "+09:00")), "feed")>>,
      <<Created(Period(Stamp(1, 0, 0, 0, "+09:00"),
                       Stamp(31, 8, 0, 0, "+09:00")), "feed")>> }

BookDurations == {15, 60}

InitBook ==
    /\ enabled = TRUE
    /\ service = TRUE
    /\ now \in NowPair
    /\ duration \in BookDurations
    /\ pc = "call"
    /\ search_start = NoTime
    /\ search_end = NoTime
    /\ busy_periods = <<>>
    /\ current_time = NoTime
    /\ branch = "none"
    /\ raised = NoExc
    /\ start_time = NoTime
    /\ event = NoEvent
    /\ ret = NoRet
    /\ queries = 0
    /\ inserts = 0
    /\ other \in { StartFrame(n, d, <<>>) : n \in NowPair, d \in BookDurations }
    /\ calendar \in BookCalendars
    /\ agent = IdleAgent

\* lines 142-155: the query of the first invocation answers from the
\* calendar
FetchCalendar ==
    /\ pc = "fetch"
    /\ busy_periods' = BusyOf(calendar)
    /\ queries' = queries + 1
    /\ current_time' = search_start
    /\ branch' = "fetched"
    /\ pc' = "loop"
    /\ UNCHANGED <<agent, calendar, other, enabled, service, now, duration,
                   search_start, search_end, raised, start_time, event, ret,
                   inserts>>

\* lines 113-210: the search of the second invocation takes its next step,
\* its query answering from the calendar
OtherStepBook ==
    /\ other.pc \in {"call", "fetch", "loop"}
    /\ other' = FrameStep(IF other.pc = "fetch"
                          THEN [other EXCEPT !.feed = BusyOf(calendar)]
                          ELSE other)
    /\ UNCHANGED <<agent, calendar, enabled, service, now, duration, pc,
                   search_start, search_end, busy_periods, current_time,
                   branch, raised, start_time, event, ret, queries, inserts>>

\* lines 247-275: the second invocation creates its event
OtherInsert ==
    /\ other.pc = "done"
    /\ other.start_time # NoTime
    /\ calendar' = Append(calendar,
                          Created(BuildEvent(other.start_time, other.duration),
                                  "second"))
    /\ other' = [other EXCEPT !.pc = "inserted"]
    /\ UNCHANGED <<agent, enabled, service, now, duration, pc, search_start,
                   search_end, busy_periods, current_time, branch, raised,
                   start_time, event, ret, queries, inserts>>

NextBook ==
    \/ ComputeSearchStart
    \/ FetchCalendar
    \/ FetchFail
    \/ SkipBeforeOpen
    \/ SkipAfterClose
    \/ SkipEndAfterClose
    \/ JumpPastBusy
    \/ ReturnSlot
    \/ Exhausted
    \/ InsertEvent
    \/ InsertFail
    \/ OtherStepBook
    \/ OtherInsert

SpecBook == InitBook /\ [][NextBook]_vars

----------------------------------------------------------------------------
(* ReActAgent of src/agent/react_agent.py: run, its tools and              *)
(* reset_conversation.  A text is a sequence of fragments, the fixed part  *)
(* of a message first.  What the language model answers in a round, what   *)
(* the book service finds and what the services return are inputs.         *)

MaxRuns == 2

\* line 256: the default of the parameter max_iterations
default_max_iterations == 5

\* values of max_iterations the model calls run with
IterationChoices == {0, 2, default_max_iterations}

UserInputs == {"recommend a book", "schedule reading"}

HumanMessage(content) == [role |-> "human", content |-> content]
AIMessage(content) == [role |-> "ai", content |-> content]

\* lines 105-126 and 54: the names of tool_map
tool_map == {"book_recommendation", "schedule_reading", "create_review",
             "conversation"}

\* actions a decision can name that are neither FINAL_ANSWER nor a tool
UnknownActions == {"search_web", ""}

\* line 146
RecommendationMarker == "Here are some book recommendations:"

\* line 310: the test  "..." in observation
Contains(text, fragment) == \E i \in 1..Len(text) : text[i] = fragment

\* line 325
fallback_response ==
    <<"I apologize, but I'm having trouble processing your request. Could you please rephrase what you'd like me to help you with?">>

\* Texts the language model gives as a final answer or as a reply.
Answers == { <<"You could read Dune.">>, <<"Happy reading!">> }

\* action inputs of the tools: not JSON, JSON without the key, JSON with it
RecommendInputs ==
    { [NoInput EXCEPT !.json = j, !.query = q] :
        j \in BOOLEAN, q \in {"", "science fiction"} }
TitleInputs ==
    { [NoInput EXCEPT !.json = j, !.book_title = b] :
        j \in BOOLEAN, b \in {"", "Dune"} }

\* lines 128-156; books is the number of books the book service found
recommend_books(input, books) ==
    IF ~input.json
    THEN <<"Error getting book recommendations: ", "JSONDecodeError">>
    ELSE IF input.query = ""
    THEN <<"Please specify either a genre or search query for book recommendations.">>
    ELSE IF books = 0
    THEN <<"No books found for ", input.query>>
    ELSE <<RecommendationMarker, "1. Dune">>

\* src/agent/react_agent.py lines 170-172: the keywords of the call
schedule_keywords == {"book_title", "duration_minutes", "preferred_time"}

\* src/services/calendar_service.py line 216: the parameters of
\* schedule_reading_session after self, and those without a default
session_parameters == {"book_title", "duration"}
session_required == {"book_title"}

\* src/services/notion_service.py line 35 and react_agent.py lines 196-199
review_keywords == {"title", "author", "review", "rating"}
review_parameters == {"title", "author", "review", "rating"}
review_required == {"title"}

\* A call by keywords binds when every keyword names a parameter and every
\* parameter without a default is given; otherwise Python raises TypeError.
Binds(keywords, parameters, required) ==
    /\ keywords \subseteq parameters
    /\ required \subseteq keywords

\* What schedule_reading_session returns when it is called.
SessionResults ==
    { Scheduled(At(1, 8, 0, 0), 30), Unavailable, InsertFailed("HttpError 403") }

\* lines 158-181; result is what the session returns if the call is made
schedule_reading(input, result) ==
    IF ~input.json
    THEN <<"Error scheduling reading time: ", "JSONDecodeError">>
    ELSE IF input.book_title = ""
    THEN <<"Please specify a book title to schedule reading time for.">>
    ELSE IF ~Binds(schedule_keywords, session_parameters, session_required)
    THEN <<"Error scheduling reading time: ", "TypeError">>
    ELSE IF result.success
    THEN <<"Scheduled ", input.book_title, result.scheduled_time>>
    ELSE <<"Failed to schedule reading time: ", result.error>>

\* lines 169-173: the session is entered only when the call is made, and it
\* creates an event only when it returns success
SessionCreates(input, result) ==
    IF /\ input.json
       /\ input.book_title # ""
       /\ Binds(schedule_keywords, session_parameters, session_required)
       /\ result.success
    THEN 1 ELSE 0

\* lines 183-208; ok is the success of the Notion service
create_review(input, ok) ==
    IF ~input.json
    THEN <<"Error creating review: ", "JSONDecodeError">>
    ELSE IF input.book_title = ""
    THEN <<"Please specify a book title for the review.">>
    ELSE IF ~Binds(review_keywords, review_parameters, review_required)
    THEN <<"Error creating review: ", "TypeError">>
    ELSE IF ok
    THEN <<"Created review for ", input.book_title>>
    ELSE <<"Failed to create review: ", "Notion error">>

\* Round that does not count the iteration
Round_Uncounted(a, action, input) ==
    [a EXCEPT !.decision = action, !.action_input = input]

\* lines 262-291: an iteration of the loop is entered and a decision parsed
Round(a, action, input) ==
    [a EXCEPT !.rounds = @ + 1, !.decision = action, !.action_input = input]

\* lines 317 and 262: the observation joins the scratchpad and the loop
\* goes on
Continue(a, text) == [a EXCEPT !.observation = text]

\* Return that leaves the history as it is
Return_Unrecorded(a, text, why) ==
    [a EXCEPT !.returned = text, !.why = why, !.pc = "idle",
              !.calls = Append(@, [input |-> a.user_input, ended |-> "returned",
                                   text |-> text])]

\* lines 296-297, 311-312, 321-322, 326-327: the text is appended to the
\* history as an AIMessage and returned
Return(a, text, why) ==
    [a EXCEPT !.chat_history = Append(@, AIMessage(text)),
              !.returned = text, !.why = why, !.pc = "idle",
              !.calls = Append(@, [input |-> a.user_input, ended |-> "returned",
                                   text |-> text])]

\* lines 276-277 and 220-221: an exception of llm.invoke leaves run
Raise(a) ==
    [a EXCEPT !.returned = <<>>, !.why = "raised", !.pc = "idle",
              !.calls = Append(@, [input |-> a.user_input, ended |-> "raised",
                                   text |-> <<>>])]

service_vars ==
    <<calendar, other, enabled, service, now, duration, pc, search_start,
      search_end, busy_periods, current_time, branch, raised, start_time,
      event, ret, queries, inserts>>

InitAgent ==
    /\ enabled = TRUE
    /\ service = TRUE
    /\ now = NoTime
    /\ duration = 0
    /\ pc = "done"
    /\ search_start = NoTime
    /\ search_end = NoTime
    /\ busy_periods = <<>>
    /\ current_time = NoTime
    /\ branch = "none"
    /\ raised = NoExc
    /\ start_time = NoTime
    /\ event = NoEvent
    /\ ret = NoRet
    /\ queries = 0
    /\ inserts = 0
    /\ other = IdleFrame
    /\ calendar = <<>>
    /\ agent = IdleAgent

\* lines 256-260: run is called
Run ==
    /\ agent.pc = "idle"
    /\ agent.runs < MaxRuns
    /\ \E u \in UserInputs, m \in IterationChoices :
          agent' = [agent EXCEPT !.pc = "run", !.max_iterations = m,
                                 !.user_input = u,
                                 !.chat_history = Append(@, HumanMessage(u)),
                                 !.rounds = 0, !.decision = "",
                                 !.action_input = NoInput,
                                 !.observation = <<>>, !.returned = <<>>,
                                 !.why = "", !.runs = @ + 1]
    /\ UNCHANGED service_vars

\* lines 262-297: the decision of the round is FINAL_ANSWER
RoundFinalAnswer ==
    /\ agent.pc = "run"
    /\ agent.rounds < agent.max_iterations
    /\ \E text \in Answers :
          agent' = Return(Round(agent, "FINAL_ANSWER", NoInput), text, "final")
    /\ UNCHANGED service_vars

\* lines 262-317: the decision is the book_recommendation tool
RoundBookRecommendation ==
    /\ agent.pc = "run"
    /\ agent.rounds < agent.max_iterations
    /\ \E input \in RecommendInputs, books \in {0, 2} :
          LET observation == recommend_books(input, books)
              a == Round(agent, "book_recommendation", input)
          IN  agent' = IF Contains(observation, RecommendationMarker)
                       THEN Return(Continue(a, observation), observation,
                                   "recommendation")
                       ELSE Continue(a, observation)
    /\ UNCHANGED service_vars

\* lines 262-317: the decision is the schedule_reading tool
RoundScheduleReading ==
    /\ agent.pc = "run"
    /\ agent.rounds < agent.max_iterations
    /\ \E input \in TitleInputs, result \in SessionResults :
          agent' = [Continue(Round(agent, "schedule_reading", input),
                             schedule_reading(input, result))
                        EXCEPT !.created = @ + SessionCreates(input, result)]
    /\ UNCHANGED service_vars

\* lines 262-317: the decision is the create_review tool
RoundCreateReview ==
    /\ agent.pc = "run"
    /\ agent.rounds < agent.max_iterations
    /\ \E input \in TitleInputs, ok \in BOOLEAN :
          agent' = Continue(Round(agent, "create_review", input),
                            create_review(input, ok))
    /\ UNCHANGED service_vars

\* lines 262-317 and 210-222: the decision is the conversation tool; an
\* exception of its llm.invoke becomes the observation (lines 314-315)
RoundConversation ==
    /\ agent.pc = "run"
    /\ agent.rounds < agent.max_iterations
    /\ \E text \in Answers \cup {<<"Error: ", "APIError">>} :
          agent' = Continue(Round(agent, "conversation", NoInput), text)
    /\ UNCHANGED service_vars

\* lines 318-322: the decision names no tool
RoundUnknownAction ==
    /\ agent.pc = "run"
    /\ agent.rounds < agent.max_iterations
    /\ \E action \in UnknownActions, text \in Answers :
          agent' = Return(Round(agent, action, NoInput), text, "unknown")
    /\ UNCHANGED service_vars

\* lines 276-277 and 320: llm.invoke raises outside the try of line 305
LlmRaises ==
    /\ agent.pc = "run"
    /\ agent.rounds < agent.max_iterations
    /\ agent' = Raise([agent EXCEPT !.rounds = @ + 1])
    /\ UNCHANGED service_vars

\* lines 324-327: the loop is over
Fallback ==
    /\ agent.pc = "run"
    /\ agent.rounds >= agent.max_iterations
    /\ agent' = Return(agent, fallback_response, "fallback")
    /\ UNCHANGED service_vars

\* lines 329-331
reset_conversation ==
    /\ agent.pc = "idle"
    /\ agent' = [agent EXCEPT !.chat_history = <<>>, !.calls = <<>>]
    /\ UNCHANGED service_vars

NextAgent ==
    \/ Run
    \/ RoundFinalAnswer
    \/ RoundBookRecommendation
    \/ RoundScheduleReading
    \/ RoundCreateReview
    \/ RoundConversation
    \/ RoundUnknownAction
    \/ LlmRaises
    \/ Fallback
    \/ reset_conversation

SpecAgent == InitAgent /\ [][NextAgent]_vars

----------------------------------------------------------------------------
(* Notions the properties are stated with.  They are written on instants  *)
(* of the UTC+9 wall clock, independently of the operators above.          *)

OpenSecs == 8 * HourSecs
CloseSecs == 21 * HourSecs
GridSecs == 15 * MinuteSecs
HorizonSecs == 30 * DaySecs

\* the search has returned a slot
Found == pc \in {"insert", "done"} /\ start_time # NoTime

\* the search has ended, with a slot or with the no-slot error
SearchEnded ==
    branch \in {"free", "exhausted", "inserted", "insert_error"}

\* [s, s + d minutes) overlaps no period of the fetched list
Disjoint(s, d) ==
    \A i \in 1..Len(busy_periods) :
        ~(s < PeriodEnd(busy_periods[i]).t
          /\ s + d * MinuteSecs > PeriodStart(busy_periods[i]).t)

\* [s, s + d minutes) lies in the business window of one UTC+9 day
InOneWindow(s, d) ==
    /\ s \div DaySecs = (s + d * MinuteSecs) \div DaySecs
    /\ s % DaySecs >= OpenSecs
    /\ (s + d * MinuteSecs) % DaySecs <= CloseSecs

\* 'now' is inside business hours
NowInHours == now.t % DaySecs >= OpenSecs /\ now.t % DaySecs < CloseSecs

----------------------------------------------------------------------------
(* C1: a returned slot [S, S + duration) overlaps no busy interval of the  *)
(* fetched list: for every interval, not (S < end and S + duration >       *)
(* start).                                                                 *)
C1_NoOverlap == Found => Disjoint(start_time.t, duration)

\* a slot returned after a jump, starting exactly where a busy period ends
C1_Witness ==
    /\ Found
    /\ start_time.t > search_start.t
    /\ \E i \in 1..Len(busy_periods) : PeriodEnd(busy_periods[i]).t = start_time.t

(* C2: a returned slot lies inside one single day's business window: S and *)
(* S + duration on the same UTC+9 day, S at or after 08:00, S + duration   *)
(* at or before 21:00; it never spans midnight.                            *)
C2_InOneWindow == Found => InOneWindow(start_time.t, duration)

(* C3: the returned start is the earliest available one on the grid: no    *)
(* 15-minute grid instant t with search_start <= t < S has [t, t+duration) *)
(* inside one day's business window and disjoint from every busy interval. *)
C3_Earliest ==
    Found =>
        \A k \in 0..((start_time.t - search_start.t) \div GridSecs) :
            LET t == search_start.t + k * GridSecs
            IN  t < start_time.t =>
                    ~(InOneWindow(t, duration) /\ Disjoint(t, duration))

(* C4: a failure to fetch the busy intervals and an exhausted search reach *)
(* the callers as two distinct outcomes: the exception that leaves the     *)
(* search after a fetch failure is of another class than the one of the    *)
(* exhausted search, and the error schedule_reading_session reports for it *)
(* starts with another text.                                               *)
C4_DistinctOutcomes ==
    (pc = "done" /\ branch = "fetch_error") =>
        /\ raised.type # Wrapped(NoSlotText).type
        /\ ret.error[1] # SearchFailed(Wrapped(NoSlotText)).error[1]

\* the outcome of an exhausted search, as both callers see it
C5_NoSlotOutcome ==
    /\ start_time = NoTime
    /\ raised.type = "Exception"
    /\ raised.msg = <<"Could not find an available slot: ", NoSlotText>>
    /\ pc = "done"
    /\ ret.success = FALSE
    /\ ret.error = raised.msg

C5_FreeCandidate(s) ==
    /\ s >= search_start.t
    /\ s < search_start.t + HorizonSecs
    /\ (s - search_start.t) % GridSecs = 0
    /\ Disjoint(s, duration)

C6_DeferredIffLater ==
    [][ (InLoop /\ OpenNow) =>
          ( (branch' = "end_after_close")
            <=> (Local(current_time) + duration * MinuteSecs
                   > DateOf(current_time) * DaySecs + CloseSecs) )
      ]_vars

(* C7: when 'now' is before 08:00, search_start is 08:00 of the same day;  *)
(* when 'now' is at or after 21:00, search_start is 08:00 of the next day; *)
(* with an empty busy list and a duration that fits the day the result is  *)
(* then that search_start (now = 22:30 gives next day 08:00).              *)
C7_DaySnap ==
    (pc \in {"fetch", "loop", "insert", "done"} /\ branch # "unavailable") =>
        /\ now.t % DaySecs < OpenSecs =>
              search_start.t = (now.t \div DaySecs) * DaySecs + OpenSecs
        /\ now.t % DaySecs >= CloseSecs =>
              search_start.t = (now.t \div DaySecs + 1) * DaySecs + OpenSecs
        /\ (/\ Found
            /\ busy_periods = <<>>
            /\ ~NowInHours
            /\ OpenSecs + duration * MinuteSecs < CloseSecs)
           => start_time.t = search_start.t

\* now = 22:30, duration 30, empty busy list: the slot is next day 08:00
C7_Witness ==
    /\ Found
    /\ now.t = DaySecs + 22 * HourSecs + 30 * MinuteSecs
    /\ duration = 30
    /\ busy_periods = <<>>
    /\ start_time.t = 2 * DaySecs + OpenSecs

(* C8: when 'now' is inside business hours, search_start is the smallest   *)
(* instant on the 15-minute grid that is >= now, also for a 'now' with     *)
(* non-zero seconds.                                                       *)
C8_RoundedUp ==
    (pc \in {"fetch", "loop", "insert", "done"} /\ branch # "unavailable"
     /\ NowInHours) =>
        search_start.t = ((now.t + GridSecs - 1) \div GridSecs) * GridSecs

(* C9: every returned slot satisfies start >= search_start, and the event  *)
(* built from it starts at the slot and has end = start + duration         *)
(* minutes exactly.                                                        *)
C9_SlotAndEvent ==
    Found =>
        /\ start_time.t >= search_start.t
        /\ FromIsoFormat(event.start).t = start_time.t
        /\ FromIsoFormat(event.end).t
             = FromIsoFormat(event.start).t + duration * MinuteSecs

\* an event built for a slot found later than search_start
C9_Witness ==
    /\ Found
    /\ start_time.t > search_start.t
    /\ duration = 60
    /\ event # NoEvent
    /\ inserts = 1

----------------------------------------------------------------------------
(* Two calls compared *)

\* the second call has returned a slot
OtherFound == other.pc = "done" /\ other.start_time # NoTime

\* the first call's search was given a busy list and is over: it returned a
\* slot or ran out of candidates
FirstEnded == Found \/ (pc = "done" /\ raised = Wrapped(NoSlotText))

\* both calls read the same clock and were given the same busy list
SameNowAndList == now = other.now /\ busy_periods = other.feed

\* the frame a call ends with when no other call runs: the frame after at
\* most fuel steps
RECURSIVE RunAlone(_, _)
RunAlone(f, fuel) ==
    IF f.pc = "done" \/ fuel = 0 THEN f
    ELSE RunAlone(FrameStep(f), fuel - 1)

Alone(n, d, feed) == RunAlone(StartFrame(n, d, feed), MaxAloneSteps)

\* C11: with the same 'now' and the same busy list, when both searches
\* return a slot, the search with the longer duration does not return the
\* earlier start.
C11_MonotoneInDuration ==
    (Found /\ OtherFound /\ SameNowAndList /\ duration <= other.duration)
        => start_time.t <= other.start_time.t

----------------------------------------------------------------------------
\* [s, s + d minutes) is free of every period taken as half-open
\* [start, end): it ends at or before the start, or starts at or after the end
FreeHalfOpen(s, d) ==
    \A i \in 1..Len(busy_periods) :
        \/ s + d * MinuteSecs <= PeriodStart(busy_periods[i]).t
        \/ s >= PeriodEnd(busy_periods[i]).t

NineToTen ==
    <<Period(Stamp(1, 9, 0, 0, "+09:00"), Stamp(1, 10, 0, 0, "+09:00"))>>

\* C12: busy intervals are half-open.  A candidate inside business hours
\* that ends at or before each interval's start, or starts at or after its
\* end, is returned as it is, boundaries included; and with busy
\* 09:00-10:00 and now 08:00, durations 30 and 60 both give 08:00.
C12_HalfOpen ==
    /\ []((/\ now = At(1, 8, 0, 0)
           /\ busy_periods = NineToTen
           /\ duration \in {30, 60}
           /\ pc = "insert") => start_time = At(1, 8, 0, 0))
    /\ [][(Candidate /\ FreeHalfOpen(current_time.t, duration))
             => (pc' = "insert" /\ start_time' = current_time)]_vars

\* the slot 08:00-09:00 returned against the period 09:00-10:00
C12_Witness ==
    /\ pc = "insert"
    /\ busy_periods = NineToTen
    /\ duration = 60
    /\ start_time = At(1, 8, 0, 0)
    /\ start_time.t + duration * MinuteSecs = PeriodStart(busy_periods[1]).t

----------------------------------------------------------------------------
\* the periods of a list, each as its pair of instants
Intervals(list) ==
    { <<PeriodStart(list[i]).t, PeriodEnd(list[i]).t>> : i \in 1..Len(list) }

\* every interval of list a lies inside an interval of list b
CoveredBy(a, b) ==
    \A x \in Intervals(a) : \E y \in Intervals(b) : y[1] <= x[1] /\ x[2] <= y[2]

\* the entries of a list
Entries(list) == { list[i] : i \in 1..Len(list) }

\* b is a with entries reordered, duplicated, or with intervals added that
\* lie inside intervals of a
Rearranged(a, b) == Entries(a) \subseteq Entries(b) /\ CoveredBy(b, a)

\* the second call's search is over: it returned a slot or raised
OtherEnded == other.pc = "done"

\* C13: with the same 'now' and duration, two searches whose busy lists
\* hold the same intervals in another order, with duplicates or with
\* contained intervals added, end with the same start or the same failure.
C13_OrderIndependent ==
    (/\ FirstEnded /\ OtherEnded
     /\ now = other.now /\ duration = other.duration
     /\ Rearranged(busy_periods, other.feed))
        => (start_time = other.start_time /\ raised = other.raised)

----------------------------------------------------------------------------
\* C14: two searches given the same 'now', the same busy list and the same
\* duration end alike, whatever the order of their steps: both return the
\* same start, or both raise the same error.
C14_Deterministic ==
    (FirstEnded /\ OtherEnded /\ SameNowAndList /\ duration = other.duration)
        => (start_time = other.start_time /\ raised = other.raised)

\* both searches, on the same inputs, returned a start reached by a jump
C14_Witness ==
    /\ Found /\ OtherFound
    /\ SameNowAndList /\ duration = other.duration
    /\ busy_periods # <<>>
    /\ start_time.t > search_start.t
    /\ start_time = other.start_time

\* both searches, on the same inputs, ran out of candidates
C14_WitnessFailure ==
    /\ pc = "done" /\ raised = Wrapped(NoSlotText)
    /\ OtherEnded /\ other.raised = raised
    /\ SameNowAndList /\ duration = other.duration

----------------------------------------------------------------------------
\* C15: every invocation ends: the search returns a slot or raises after
\* finitely many loop iterations, for every busy list, duration and 'now'.
\* An invocation that has not ended always has a step that changes its
\* state: no iteration of the loop leaves every local as it found it.
C15_Terminates == pc # "done" => ENABLED <<Next>>_vars

----------------------------------------------------------------------------
\* the search of this invocation failed: the query raised or no slot was
\* found
SearchRaised == raised # NoExc

\* C16: events().insert is called only after the search has returned a slot:
\* an invocation that made the call holds a returned start and no error of
\* the search, and an invocation whose search failed makes no such call.
C16_InsertOnlyAfterSlot ==
    /\ inserts > 0 => (start_time # NoTime /\ ~SearchRaised /\ queries > 0)
    /\ SearchRaised => (inserts = 0 /\ pc = "done" /\ event = NoEvent)

\* an invocation that ended on a failed search, after its query was answered
C16_Witness ==
    /\ pc = "done" /\ raised = Wrapped(NoSlotText)
    /\ queries = 1 /\ inserts = 0

----------------------------------------------------------------------------
\* C17: within one invocation the free/busy query is made at most once and
\* events().insert is made at most once, whether they succeed or fail: an
\* invocation that has ended made exactly the calls its outcome accounts
\* for.
C17_NoRetry ==
    /\ queries <= 1
    /\ inserts <= 1
    /\ branch = "fetch_error" => (queries = 1 /\ inserts = 0 /\ pc = "done")
    /\ branch = "insert_error" => (queries = 1 /\ inserts = 1 /\ pc = "done")

\* an invocation that ended on a failed insert, made once
C17_Witness ==
    /\ pc = "done" /\ branch = "insert_error"
    /\ ~ret.success
    /\ queries = 1 /\ inserts = 1

----------------------------------------------------------------------------
\* C18: the invocation returns success = True, with the event id and the
\* scheduled time of the found slot, exactly when a slot was found and the
\* event was created; in every other case it returns success = False with
\* an error and none of the slot or event fields.  Nothing is returned
\* before the invocation ends.
C18_NoPartialResult ==
    /\ pc # "done" => ret = NoRet
    /\ pc = "done" =>
         /\ ret.success <=> (start_time # NoTime /\ branch = "inserted")
         /\ ret.success =>
              /\ ret.error = <<>>
              /\ ret.event_id # ""
              /\ ret.scheduled_time = StrfTime(start_time)
              /\ ret.duration = duration
         /\ ~ret.success =>
              /\ ret.error # <<>>
              /\ ret.event_id = NoRet.event_id
              /\ ret.scheduled_time = NoRet.scheduled_time
              /\ ret.duration = NoRet.duration

\* a slot was found, the event creation failed, and the returned dictionary
\* carries the error alone
C18_Witness ==
    /\ pc = "done"
    /\ start_time # NoTime /\ event # NoEvent
    /\ ret = InsertFailed("HttpError 403")

----------------------------------------------------------------------------
\* C19: the search keeps no state between requests.  No step of a call
\* changes a field of the CalendarService; each call makes its own
\* free/busy query and searches the list that query answered; and once
\* both calls have ended, in whichever order they ran, the second has
\* returned what it returns alone.
C19_NoStateKept ==
    /\ []((pc = "done" /\ other.pc = "done") =>
            LET alone == Alone(other.now, other.duration, other.feed)
            IN  /\ alone.pc = "done"
                /\ other.start_time = alone.start_time
                /\ other.raised = alone.raised)
    /\ [][/\ enabled' = enabled
          /\ service' = service
          /\ (pc = "fetch" /\ pc' # "fetch") => queries' = queries + 1
          /\ (other.pc = "fetch" /\ other'.pc # "fetch") =>
                /\ other'.queries = other.queries + 1
                /\ other'.busy_periods = other.feed]_vars

\* both calls have ended; the second found its slot by a jump in its own
\* list, which is not the list the first call fetched
C19_Witness ==
    /\ pc = "done" /\ queries = 1 /\ busy_periods # <<>>
    /\ OtherFound /\ other.queries = 1
    /\ other.busy_periods = other.feed
    /\ other.feed # busy_periods
    /\ other.start_time.t > other.search_start.t

----------------------------------------------------------------------------
\* C20: two searches with independent inputs, their steps interleaved in
\* any order on one CalendarService, each end with the result of the search
\* run alone on its inputs: the same start, or the same error.
C20_Reentrant ==
    /\ FirstEnded =>
         LET alone == Alone(now, duration, busy_periods)
         IN  /\ alone.pc = "done"
             /\ start_time = alone.start_time
             /\ raised = alone.raised
    /\ OtherEnded =>
         LET alone == Alone(other.now, other.duration, other.feed)
         IN  /\ alone.pc = "done"
             /\ other.start_time = alone.start_time
             /\ other.raised = alone.raised

\* both searches ended, on different clocks, durations and lists, with
\* different starts
C20_Witness ==
    /\ Found /\ OtherFound
    /\ now # other.now
    /\ duration # other.duration
    /\ busy_periods # other.feed
    /\ busy_periods # <<>> /\ other.feed # <<>>
    /\ start_time # other.start_time

----------------------------------------------------------------------------
\* the least instant of the 15-minute grid at or after s
LeastGridAtOrAfter(s) == ((s + GridSecs - 1) \div GridSecs) * GridSecs

\* the first period of the fetched list, in list order, that the candidate
\* [current_time, current_time + duration) overlaps; 0 when there is none
FirstHit ==
    LET hits == { i \in 1..Len(busy_periods) :
                    /\ current_time.t < PeriodEnd(busy_periods[i]).t
                    /\ current_time.t + duration * MinuteSecs
                           > PeriodStart(busy_periods[i]).t }
    IN  IF hits = {} THEN 0 ELSE CHOOSE i \in hits : \A j \in hits : i <= j

\* C21: when the candidate overlaps a busy interval, the next candidate is
\* the end of the first overlapping interval in list order rounded up to
\* the grid: the least grid instant at or after that end.
C21_JumpToRoundedEnd ==
    [][(Candidate /\ FirstHit # 0) =>
          current_time'.t =
              LeastGridAtOrAfter(PeriodEnd(busy_periods[FirstHit]).t)]_vars

----------------------------------------------------------------------------
\* loop iterations a day of the horizon may take for its own jumps: one to
\* the opening hour, one past the close, one to spare
JumpsPerDay == 2 + 1

\* the first period of the call's list that its candidate overlaps; 0 when
\* there is none
OtherFirstHit ==
    LET hits == { i \in 1..Len(other.busy_periods) :
                    /\ other.current_time.t < PeriodEnd(other.busy_periods[i]).t
                    /\ other.current_time.t + other.duration * MinuteSecs
                           > PeriodStart(other.busy_periods[i]).t }
    IN  IF hits = {} THEN 0 ELSE CHOOSE i \in hits : \A j \in hits : i <= j

\* C22: the walk advances by jumps.  A jump past a busy interval leaves the
\* interval behind, so that each interval causes at most one jump, and the
\* number of loop iterations of a search is at most the number of busy
\* intervals plus a constant number of jumps per day of the horizon.
C22_IterationBound ==
    /\ [](other.iterations
             <= Len(other.feed) + JumpsPerDay * (HorizonDays + 1) + 1)
    /\ [][(/\ other.pc = "loop" /\ other'.pc = "loop"
           /\ other'.iterations # other.iterations
           /\ OtherFirstHit # 0
           /\ HourOf(other.current_time) >= business_hours_start
           /\ HourOf(other.current_time) < business_hours_end
           /\ ~EndsAfterClose(SlotEnd(other.current_time, other.duration)))
             => other'.current_time.t
                    >= PeriodEnd(other.busy_periods[OtherFirstHit]).t]_vars

----------------------------------------------------------------------------
\* the instant s, read on the UTC+9 wall clock, is outside business hours
OutsideHours(s) == s % DaySecs < OpenSecs \/ s % DaySecs >= CloseSecs

\* C23: a candidate start outside business hours is moved forward to an
\* opening time 08:00, and the candidate never moves backward: from one
\* loop iteration to the next its instant does not decrease and its day is
\* not an earlier one.
C23_ForwardOnly ==
    [][/\ (pc = "loop" /\ pc' = "loop") =>
             /\ current_time'.t >= current_time.t
             /\ current_time'.t \div DaySecs >= current_time.t \div DaySecs
       /\ (InLoop /\ OutsideHours(current_time.t)) =>
             /\ pc' = "loop"
             /\ current_time'.t > current_time.t
             /\ current_time'.t % DaySecs = OpenSecs]_vars

----------------------------------------------------------------------------
\* C25: the business-hours tests are made on the candidate's UTC+9 local
\* hour, also after a jump to the end of a period reported with another
\* offset: the walk takes the before-opening branch exactly when the
\* candidate's UTC+9 time is before 08:00, and the after-close branch
\* exactly when it is at or after 21:00.
C25_HoursInZone ==
    [][InLoop =>
          /\ (branch' = "before_open") <=> (current_time.t % DaySecs < OpenSecs)
          /\ (branch' = "after_close") <=> (current_time.t % DaySecs >= CloseSecs)]_vars

----------------------------------------------------------------------------
\* the datetime reads a quarter-hour minute and zero seconds, and its
\* instant is on the 15-minute grid
OnGrid(dt) ==
    /\ MinuteOf(dt) \in {0, 15, 30, 45}
    /\ SecondOf(dt) = 0
    /\ dt.t % GridSecs = 0

\* C26: in every loop iteration the candidate start is on the 15-minute
\* grid (minute 0, 15, 30 or 45, second 0), and so is every returned start,
\* for every 'now' and every busy list.
C26_OnGrid ==
    /\ current_time # NoTime => OnGrid(current_time)
    /\ start_time # NoTime => OnGrid(start_time)

\* a start returned after a jump past a period whose end is off the grid
C26_Witness ==
    /\ Found
    /\ now.t % GridSecs # 0
    /\ \E i \in 1..Len(busy_periods) :
          /\ PeriodEnd(busy_periods[i]).t % GridSecs # 0
          /\ start_time.t > PeriodEnd(busy_periods[i]).t
          /\ start_time.t - PeriodEnd(busy_periods[i]).t < GridSecs

----------------------------------------------------------------------------
\* C27: a returned slot lies inside the range whose busy intervals were
\* fetched, timeMin = search_start to timeMax = search_end:
\* search_start <= start and start + duration <= search_end.
C27_InsideQueriedRange ==
    Found =>
        /\ search_start.t <= start_time.t
        /\ start_time.t + duration * MinuteSecs <= search_end.t

----------------------------------------------------------------------------
\* the two events occupy a common stretch of time
EventsOverlap(a, b) ==
    /\ FromIsoFormat(a.start).t < FromIsoFormat(b.end).t
    /\ FromIsoFormat(b.start).t < FromIsoFormat(a.end).t

\* C28: when two invocations of schedule_reading_session run interleaved
\* against the same calendar, the events they create do not overlap.
C28_NoDoubleBooking ==
    \A i, j \in 1..Len(calendar) :
        (calendar[i].by = "first" /\ calendar[j].by = "second")
            => ~EventsOverlap(calendar[i], calendar[j])

----------------------------------------------------------------------------
\* C24: the schedule_reading tool, given JSON with a non-empty book_title,
\* calls schedule_reading_session and reports its outcome: the observation
\* is the "Scheduled" message when the session returns success and the
\* "Failed to schedule reading time" message otherwise.
C24_ToolReportsSession ==
    (/\ agent.decision = "schedule_reading"
     /\ agent.action_input.json
     /\ agent.action_input.book_title # "")
        => Head(agent.observation) \in
               {"Scheduled ", "Failed to schedule reading time: "}

\* the round that led to a ends run: its decision is FINAL_ANSWER, or names
\* no tool, or is book_recommendation with a successful observation
Ending(a) ==
    \/ a.decision = "FINAL_ANSWER"
    \/ a.decision \notin tool_map
    \/ /\ a.decision = "book_recommendation"
       /\ Contains(a.observation, RecommendationMarker)

C29_WitnessFinal ==
    /\ agent.pc = "idle"
    /\ agent.rounds = 2
    /\ agent.decision = "FINAL_ANSWER"
    /\ agent.returned \in Answers

RECURSIVE History(_)
\* one HumanMessage and one AIMessage per run call, in call order
History(calls) ==
    IF calls = <<>> THEN <<>>
    ELSE History(SubSeq(calls, 1, Len(calls) - 1))
            \o <<HumanMessage(calls[Len(calls)].input),
                 AIMessage(calls[Len(calls)].text)>>

AllReturned == \A i \in 1..Len(agent.calls) : agent.calls[i].ended = "returned"

\* C30: when every run call since the last reset has returned, chat_history
\* is one HumanMessage followed by one AIMessage per call, in call order,
\* the AIMessage being the returned text; a return appends exactly that one
\* AIMessage, and reset_conversation empties the history.
C30_HistoryPairs ==
    /\ []((agent.pc = "idle" /\ AllReturned)
            => agent.chat_history = History(agent.calls))
    /\ [][(agent.pc = "run" /\ agent'.pc = "idle" /\ agent'.why # "raised")
            => agent'.chat_history =
                   Append(agent.chat_history, AIMessage(agent'.returned))]_vars
    /\ [][(agent.pc = "idle" /\ agent'.pc = "idle")
            => agent'.chat_history = <<>>]_vars

\* two run calls have returned since the last reset, the first one before
\* any round and the second by a final answer
C30_Witness ==
    /\ agent.pc = "idle"
    /\ AllReturned
    /\ Len(agent.calls) = 2
    /\ Len(agent.chat_history) = 2 + 2
    /\ agent.chat_history[2] = AIMessage(fallback_response)
    /\ agent.chat_history[2 + 2].content \in Answers

\* the history was reset after a run had returned
C30_WitnessReset ==
    /\ agent.pc = "idle"
    /\ agent.runs > 0
    /\ agent.calls = <<>>
    /\ agent.chat_history = <<>>

====
